---- MODULE Spec2Model ----
(***************************************************************************)
(* Model of generate_icons.py: the import guard, the driver main(), and    *)
(* the two rendering functions create_icon and create_ico, statement by    *)
(* statement.  The drawing library, the font provider and the file system  *)
(* are the environment: whether the library imports, whether "arial.ttf"   *)
(* loads, which bounding box the font reports for "TO", and whether a      *)
(* write succeeds are chosen nondeterministically.                         *)
(*                                                                         *)
(* A bitmap is abstracted to its pixel dimensions; the label drawn on it   *)
(* is kept as the bounding box of the rendered text (variable label).      *)
(* A file is abstracted to its format and the set of pixel dimensions of   *)
(* the images it embeds.                                                   *)
(***************************************************************************)
EXTENDS Integers, Sequences, FiniteSets

\* ---------------------------------------------------------------- bounds
\* Largest size a direct caller passes to create_icon / create_ico.
MaxSize == 3
\* Longest sizes sequence a direct caller passes to create_ico.
MaxLen == 2
\* Largest left/top offset of the bounding box a font reports at (0, 0).
MaxOffset == 2
\* Largest width/height of the bounding box a font reports.
MaxExtent == 2

VARIABLES
    pilAvailable,   \* environment: "from PIL import ..." succeeds
    entry,          \* how the module is run: as __main__, or imported and one function called
    pc,             \* position in the program
    dir0, files0,   \* the icon directory and its files before the run
    dirExists,      \* src-tauri/icons exists
    files,          \* file name in the icon directory -> content
    out,            \* stdout: sequence of <<kind, path>>
    exc,            \* the exception propagating uncaught ("none" if none)
    raisedAt,       \* the position that raised it
    exit,           \* process exit status (-1 while running)
    step,           \* index in DriverCalls of the call main is in (0 before the first)
    fn, size, sizes, path,   \* current call: function and arguments
    idx,            \* create_ico: iterations of the for loop started
    img, font, bbox, origin, \* locals of the rendering code
    label,          \* bounding box of the text as drawn by draw.text (<<>>: nothing drawn)
    images,         \* create_ico: the list images
    handed,         \* the images given to the ICO encoder by the last save
    written,        \* paths saved so far, in order
    ret             \* value returned by the last create_icon

vars == <<pilAvailable, entry, pc, dir0, files0, dirExists, files, out, exc,
          raisedAt, exit, step, fn, size, sizes, path, idx, img, font, bbox,
          origin, label, images, handed, written, ret>>

env == <<pilAvailable, entry, dir0, files0>>
frame == <<fn, size, sizes, path, idx, img, font, bbox, origin, label, images, handed, ret>>
fs == <<dirExists, files, written>>

\* ---------------------------------------------------------------- data
NoImg == [width |-> 0, height |-> 0]
NoBox == <<0, 0, 0, 0>>
NoOrigin == <<0, 0>>

OldContent == [format |-> "old", entries |-> {}]
PartialContent == [format |-> "partial", entries |-> {}]

\* The driver with the third call saving to the path of the second.
DriverCallsSamePath ==
    << [fn |-> "create_icon", size |-> 32,  sizes |-> <<>>, path |-> "32x32.png"],
       [fn |-> "create_icon", size |-> 128, sizes |-> <<>>, path |-> "128x128.png"],
       [fn |-> "create_icon", size |-> 256, sizes |-> <<>>, path |-> "128x128.png"],
       [fn |-> "create_ico",  size |-> 0,   sizes |-> <<16, 32, 48, 256>>, path |-> "icon.ico"],
       [fn |-> "create_icon", size |-> 512, sizes |-> <<>>, path |-> "icon.icns.png"] >>

\* main, lines 84-94: the five calls in program order.
DriverCalls ==
    << [fn |-> "create_icon", size |-> 32,  sizes |-> <<>>, path |-> "32x32.png"],
       [fn |-> "create_icon", size |-> 128, sizes |-> <<>>, path |-> "128x128.png"],
       [fn |-> "create_icon", size |-> 256, sizes |-> <<>>, path |-> "128x128@2x.png"],
       [fn |-> "create_ico",  size |-> 0,   sizes |-> <<16, 32, 48, 256>>, path |-> "icon.ico"],
       [fn |-> "create_icon", size |-> 512, sizes |-> <<>>, path |-> "icon.icns.png"] >>

\* Files that may be in the icon directory before the run.
PreNames == {"other.png", "icon.ico"}

SeqsUpTo(S, n) == UNION {[1..k -> S] : k \in 0..n}

\* Direct calls of the two functions by an importer of the module.
DirectCalls ==
    {[fn |-> "create_icon", size |-> s, sizes |-> <<>>, path |-> "32x32.png"] : s \in 1..MaxSize}
    \cup
    {[fn |-> "create_ico", size |-> 0, sizes |-> q, path |-> "icon.ico"] : q \in SeqsUpTo(1..MaxSize, MaxLen)}

MainEntry == [fn |-> "main", size |-> 0, sizes |-> <<>>, path |-> ""]

\* Bounding boxes <<left, top, right, bottom>> a font may report for "TO" at (0, 0).
BBoxes ==
    {<<l, t, l + w, t + h>> : l \in 0..MaxOffset, t \in 0..MaxOffset,
                              w \in 1..MaxExtent, h \in 1..MaxExtent}

Created(p) == <<"Created", p>>
InstallMsg == <<"Error: Pillow library required. Install with: pip install Pillow", "">>
BannerMsg == <<"Generating placeholder icons for The Organizer...", "">>
SuccessMsg == <<"Placeholder icons created successfully!", "">>

Printed(m) == \E i \in 1..Len(out) : out[i] = m
AnyCreated == \E i \in 1..Len(out) : out[i][1] = "Created"

\* ---------------------------------------------------------------- pure parts
\* A canvas as high as the font size instead of the icon size.
ImageNewFontHigh(s) == [width |-> s, height |-> s \div 2]

\* Image.new('RGB', (size, size), ...)
ImageNew(s) == [width |-> s, height |-> s]

\* font_size = size // 2
FontSize(s) == s \div 2

\* x = (size - text_width) // 2 ; y = (size - text_height) // 2
TextOrigin(s, b) ==
    LET text_width == b[3] - b[1]
        text_height == b[4] - b[2]
    IN <<(s - text_width) \div 2, (s - text_height) \div 2>>

\* draw.text((x, y), ...): the glyphs land where textbbox((x, y), ...) says,
\* the box measured at (0, 0) translated by (x, y).
DrawnBox(o, b) == <<o[1] + b[1], o[2] + b[2], o[1] + b[3], o[2] + b[4]>>

\* images[0].save(..., format='ICO', sizes=...): the encoder is given
\* images[0] alone (no append_images).
EncoderImages(ims) == <<ims[1]>>

\* [(s, s) for s in sizes]
RequestedSizes(q) == {<<q[i], q[i]>> : i \in 1..Len(q)}

\* The ICO encoder embeds one image per requested size, skipping every size
\* larger than the image it was given or larger than 256.
IcoEntries(primary, req) ==
    {d \in req : d[1] <= primary.width /\ d[2] <= primary.height
                 /\ d[1] <= 256 /\ d[2] <= 256}

PngContent(im) == [format |-> "PNG", entries |-> {<<im.width, im.height>>}]
IcoContent(ims, q) ==
    [format |-> "ICO", entries |-> IcoEntries(EncoderImages(ims)[1], RequestedSizes(q))]

Put(f, p, c) == [n \in DOMAIN f \cup {p} |-> IF n = p THEN c ELSE f[n]]

\* ---------------------------------------------------------------- Init
Init ==
    /\ pilAvailable \in BOOLEAN
    /\ entry \in {MainEntry} \cup DirectCalls
    /\ dir0 \in BOOLEAN
    /\ \E pre \in SUBSET PreNames :
          /\ (~dir0 => pre = {})
          /\ files0 = [n \in pre |-> OldContent]
    /\ dirExists = dir0
    /\ files = files0
    /\ pc = "import"
    /\ out = <<>>
    /\ exc = "none"
    /\ raisedAt = "none"
    /\ exit = -1
    /\ step = 0
    /\ fn = "none" /\ size = 0 /\ sizes = <<>> /\ path = ""
    /\ idx = 0
    /\ img = NoImg /\ font = "none" /\ bbox = NoBox /\ origin = NoOrigin
    /\ label = <<>>
    /\ images = <<>>
    /\ handed = <<>>
    /\ written = <<>>
    /\ ret = NoImg

\* ---------------------------------------------------------------- helpers
\* An exception leaves the statement at position `at` and is caught nowhere.
Raise(e, at) ==
    /\ exc' = e
    /\ raisedAt' = at
    /\ pc' = "raise"

\* Entering create_icon / create_ico with the arguments of call c: the
\* parameters are bound, the locals are those of a fresh frame.
BeginCall(c) ==
    /\ fn' = c.fn
    /\ size' = c.size
    /\ sizes' = c.sizes
    /\ path' = c.path
    /\ idx' = 0
    /\ images' = <<>>
    /\ img' = NoImg /\ font' = "none" /\ bbox' = NoBox /\ origin' = NoOrigin
    /\ label' = <<>>
    /\ pc' = IF c.fn = "create_icon" THEN "new_image" ELSE "loop"
    /\ UNCHANGED <<handed, ret>>

\* What a failed write may leave at path p: nothing changed (the open failed),
\* or a truncated file (the write failed after the open).
FailedWrite(p) == {files} \cup (IF dirExists THEN {Put(files, p, PartialContent)} ELSE {})

\* ---------------------------------------------------------------- actions
\* The import guard exiting with status 0.
ImportGuardExitZero ==
    /\ pc = "import"
    /\ IF pilAvailable
         THEN pc' = "entry" /\ UNCHANGED <<out, exit>>
         ELSE /\ out' = Append(out, InstallMsg)
              /\ exit' = 0
              /\ pc' = "exited"
    /\ UNCHANGED <<env, fs, exc, raisedAt, step, frame>>

\* The import guard printing the instruction without exiting.
ImportGuardNoExit ==
    /\ pc = "import"
    /\ out' = IF pilAvailable THEN out ELSE Append(out, InstallMsg)
    /\ pc' = "entry"
    /\ UNCHANGED <<env, fs, exc, raisedAt, exit, step, frame>>

\* Lines 10-14: try: from PIL import ... except ImportError: print; sys.exit(1)
ImportGuard ==
    /\ pc = "import"
    /\ IF pilAvailable
         THEN pc' = "entry" /\ UNCHANGED <<out, exit>>
         ELSE /\ out' = Append(out, InstallMsg)
              /\ exit' = 1
              /\ pc' = "exited"
    /\ UNCHANGED <<env, fs, exc, raisedAt, step, frame>>

\* Lines 103-104: run as a script, main() is called; imported, the importer
\* calls create_icon or create_ico itself.
EntryPoint ==
    /\ pc = "entry"
    /\ IF entry.fn = "main"
         THEN pc' = "makedirs" /\ UNCHANGED frame
         ELSE BeginCall(entry)
    /\ UNCHANGED <<env, fs, out, exc, raisedAt, exit, step>>

\* os.makedirs(icons_dir) without exist_ok: an existing directory raises.
MakeDirsNoExistOk ==
    /\ pc = "makedirs"
    /\ \/ ~dirExists /\ dirExists' = TRUE /\ pc' = "banner" /\ UNCHANGED <<exc, raisedAt>>
       \/ Raise("OSError", "makedirs") /\ UNCHANGED dirExists
    /\ UNCHANGED <<env, files, written, out, exit, step, frame>>

\* Lines 76-78: os.makedirs(icons_dir, exist_ok=True)
MakeDirs ==
    /\ pc = "makedirs"
    /\ IF dirExists
         THEN pc' = "banner" /\ UNCHANGED <<dirExists, exc, raisedAt>>
         ELSE \/ dirExists' = TRUE /\ pc' = "banner" /\ UNCHANGED <<exc, raisedAt>>
              \/ Raise("OSError", "makedirs") /\ UNCHANGED dirExists
    /\ UNCHANGED <<env, files, written, out, exit, step, frame>>

\* Lines 80-81
PrintBanner ==
    /\ pc = "banner"
    /\ out' = Append(out, BannerMsg)
    /\ pc' = "call"
    /\ UNCHANGED <<env, fs, exc, raisedAt, exit, step, frame>>

\* Lines 84-94: the next call of the driver sequence.
DriverCall ==
    /\ pc = "call"
    /\ step < Len(DriverCalls)
    /\ step' = step + 1
    /\ BeginCall(DriverCalls[step + 1])
    /\ UNCHANGED <<env, fs, out, exc, raisedAt, exit>>

\* Lines 19-20 and 51-52: a blank canvas.
NewImage ==
    /\ pc = "new_image"
    /\ img' = ImageNew(size)
    /\ label' = <<>>
    /\ pc' = "load_font"
    /\ UNCHANGED <<env, fs, out, exc, raisedAt, exit, step,
                   fn, size, sizes, path, idx, font, bbox, origin, images, handed, ret>>

\* The font loaded without the try/except: a failure propagates.
LoadFontNoExcept ==
    /\ pc = "load_font"
    /\ \/ FontSize(size) > 0 /\ font' = "arial" /\ pc' = "measure" /\ UNCHANGED <<exc, raisedAt>>
       \/ Raise("OSError", "load_font") /\ UNCHANGED font
    /\ UNCHANGED <<env, fs, out, exit, step,
                   fn, size, sizes, path, idx, img, bbox, origin, label, images, handed, ret>>

\* Lines 22-27 and 55-59: truetype("arial.ttf", size // 2) loads, or raises
\* (font missing, or a point size of 0) and the bare except takes the default font.
LoadFont ==
    /\ pc = "load_font"
    /\ \/ FontSize(size) > 0 /\ font' = "arial"
       \/ font' = "default"
    /\ pc' = "measure"
    /\ UNCHANGED <<env, fs, out, exc, raisedAt, exit, step,
                   fn, size, sizes, path, idx, img, bbox, origin, label, images, handed, ret>>

\* Lines 30-37 and 61-66: measure "TO" at (0, 0), compute the draw origin.
MeasureText ==
    /\ pc = "measure"
    /\ \E b \in BBoxes :
          /\ bbox' = b
          /\ origin' = TextOrigin(size, b)
    /\ pc' = "draw"
    /\ UNCHANGED <<env, fs, out, exc, raisedAt, exit, step,
                   fn, size, sizes, path, idx, img, font, label, images, handed, ret>>

\* Lines 39 and 68-69: draw the text; create_ico appends the bitmap to images.
DrawText ==
    /\ pc = "draw"
    /\ label' = DrawnBox(origin, bbox)
    /\ IF fn = "create_icon"
         THEN pc' = "save_png" /\ UNCHANGED images
         ELSE pc' = "loop" /\ images' = Append(images, img)
    /\ UNCHANGED <<env, fs, out, exc, raisedAt, exit, step,
                   fn, size, sizes, path, idx, img, font, bbox, origin, handed, ret>>

\* Line 50: for size in sizes.  The locals left by the previous iteration are
\* dead (each is assigned again before it is read) and are cleared here.
LoopIco ==
    /\ pc = "loop"
    /\ IF idx < Len(sizes)
         THEN /\ idx' = idx + 1
              /\ size' = sizes[idx + 1]
              /\ img' = NoImg /\ font' = "none" /\ bbox' = NoBox /\ origin' = NoOrigin
              /\ label' = <<>>
              /\ pc' = "new_image"
         ELSE /\ pc' = "save_ico"
              /\ UNCHANGED <<idx, size, img, font, bbox, origin, label>>
    /\ UNCHANGED <<env, fs, out, exc, raisedAt, exit, step,
                   fn, sizes, path, images, handed, ret>>

\* Line 42: img.save(output_path, 'PNG')
SavePng ==
    /\ pc = "save_png"
    /\ \/ /\ dirExists
          /\ files' = Put(files, path, PngContent(img))
          /\ written' = Append(written, path)
          /\ pc' = "print_png"
          /\ UNCHANGED <<exc, raisedAt>>
       \/ /\ files' \in FailedWrite(path)
          /\ Raise("OSError", "save_png")
          /\ UNCHANGED written
    /\ UNCHANGED <<env, dirExists, out, exit, step, frame>>

\* The save guarded against an empty list: an empty container is written.
SaveIcoEmptyOk ==
    /\ pc = "save_ico"
    /\ \/ /\ dirExists
          /\ handed' = IF images = <<>> THEN <<>> ELSE EncoderImages(images)
          /\ files' = Put(files, path,
                          IF images = <<>> THEN [format |-> "ICO", entries |-> {}]
                          ELSE IcoContent(images, sizes))
          /\ written' = Append(written, path)
          /\ pc' = "print_ico"
          /\ UNCHANGED <<exc, raisedAt>>
       \/ /\ handed' = IF images = <<>> THEN <<>> ELSE EncoderImages(images)
          /\ files' \in FailedWrite(path)
          /\ Raise("OSError", "save_ico")
          /\ UNCHANGED written
    /\ UNCHANGED <<env, dirExists, out, exit, step,
                   fn, size, sizes, path, idx, img, font, bbox, origin, label, images, ret>>

\* Line 72: images[0].save(output_path, format='ICO', sizes=[(s, s) for s in sizes])
SaveIco ==
    /\ pc = "save_ico"
    /\ IF images = <<>>
         THEN /\ Raise("IndexError", "save_ico")
              /\ UNCHANGED <<files, written, handed>>
         ELSE \/ /\ dirExists
                 /\ handed' = EncoderImages(images)
                 /\ files' = Put(files, path, IcoContent(images, sizes))
                 /\ written' = Append(written, path)
                 /\ pc' = "print_ico"
                 /\ UNCHANGED <<exc, raisedAt>>
              \/ /\ handed' = EncoderImages(images)
                 /\ files' \in FailedWrite(path)
                 /\ Raise("OSError", "save_ico")
                 /\ UNCHANGED written
    /\ UNCHANGED <<env, dirExists, out, exit, step,
                   fn, size, sizes, path, idx, img, font, bbox, origin, label, images, ret>>

\* Lines 43 and 73: print(f"Created: {output_path}")
PrintCreated ==
    /\ pc \in {"print_png", "print_ico"}
    /\ out' = Append(out, Created(path))
    /\ pc' = IF pc = "print_png" THEN "return_png" ELSE "returned"
    /\ UNCHANGED <<env, fs, exc, raisedAt, exit, step, frame>>

\* Line 45: return img
ReturnIcon ==
    /\ pc = "return_png"
    /\ ret' = img
    /\ pc' = "returned"
    /\ UNCHANGED <<env, fs, out, exc, raisedAt, exit, step,
                   fn, size, sizes, path, idx, img, font, bbox, origin, label, images, handed>>

\* Back in the caller: main goes on to its next statement, an importer is done.
AfterCall ==
    /\ pc = "returned"
    /\ pc' = IF entry.fn # "main" THEN "finish"
             ELSE IF step < Len(DriverCalls) THEN "call" ELSE "success"
    /\ UNCHANGED <<env, fs, out, exc, raisedAt, exit, step, frame>>

\* Lines 96-101
PrintSuccess ==
    /\ pc = "success"
    /\ out' = Append(out, SuccessMsg)
    /\ pc' = "finish"
    /\ UNCHANGED <<env, fs, exc, raisedAt, exit, step, frame>>

\* Falling off the end of the script: exit status 0.
Finish ==
    /\ pc = "finish"
    /\ exit' = 0
    /\ pc' = "exited"
    /\ UNCHANGED <<env, fs, out, exc, raisedAt, step, frame>>

\* Each driver call wrapped in its own try/except: the error is reported and
\* the run goes on with the next call.
UnhandledContinue ==
    /\ pc = "raise"
    /\ IF entry.fn = "main" /\ step >= 1
         THEN pc' = "returned" /\ UNCHANGED exit
         ELSE exit' = 1 /\ pc' = "exited"
    /\ UNCHANGED <<env, fs, out, exc, raisedAt, step, frame>>

\* No try/except in main or around it: an exception raised by a step ends
\* the process with a traceback and exit status 1.
Unhandled ==
    /\ pc = "raise"
    /\ exit' = 1
    /\ pc' = "exited"
    /\ UNCHANGED <<env, fs, out, exc, raisedAt, step, frame>>

Next ==
    \/ ImportGuard
    \/ EntryPoint
    \/ MakeDirs
    \/ PrintBanner
    \/ DriverCall
    \/ NewImage
    \/ LoadFont
    \/ MeasureText
    \/ DrawText
    \/ LoopIco
    \/ SavePng
    \/ SaveIco
    \/ PrintCreated
    \/ ReturnIcon
    \/ AfterCall
    \/ PrintSuccess
    \/ Finish
    \/ Unhandled

Spec == Init /\ [][Next]_vars

\* ---------------------------------------------------------------- properties
\* The five outputs of the driver, in the order the driver is said to write them.
FiveOrder == <<"32x32.png", "128x128.png", "128x128@2x.png", "icon.ico", "icon.icns.png">>
FiveNames == {FiveOrder[i] : i \in 1..Len(FiveOrder)}

IsPrefix(a, b) == Len(a) <= Len(b) /\ \A i \in 1..Len(a) : a[i] = b[i]
InSeq(x, q) == \E i \in 1..Len(q) : q[i] = x
Complete(c) == c.format \in {"PNG", "ICO"}

\* Twice the distance between a midpoint (given doubled) and size / 2 is at most 2.
WithinOnePixel(twiceMid, s) == twiceMid - s <= 2 /\ s - twiceMid <= 2

\* C1: create_ico([16, 32, 48, 256], path) writes a container embedding exactly
\* the four images 16x16, 32x32, 48x48 and 256x256, and every bitmap rendered
\* in the loop is among the images handed to the encoder.
C1_AllSizesEmbedded ==
    (pc = "print_ico" /\ sizes = <<16, 32, 48, 256>>) =>
        /\ path \in DOMAIN files
        /\ files[path].entries = {<<16, 16>>, <<32, 32>>, <<48, 48>>, <<256, 256>>}
        /\ \A i \in 1..Len(images) : InSeq(images[i], handed)

\* C2: whatever bounding box the font reports at (0, 0), the midpoint of the
\* label as drawn is within one pixel of (size / 2, size / 2) on both axes.
C2_LabelCentred ==
    (pc \in {"save_png", "loop"} /\ label # <<>>) =>
        /\ WithinOnePixel(label[1] + label[3], size)
        /\ WithinOnePixel(label[2] + label[4], size)

\* C3: a driver run that completes against an empty target directory leaves
\* exactly the five named files, and the success message is printed only after
\* all five have been written.
C3_FiveFilesThenSuccess ==
    (entry.fn = "main" /\ DOMAIN files0 = {}) =>
        /\ (pc = "exited" /\ exit = 0) =>
              /\ DOMAIN files = FiveNames
              /\ Printed(SuccessMsg)
        /\ Printed(SuccessMsg) =>
              \A n \in FiveNames : InSeq(n, written) /\ n \in DOMAIN files /\ Complete(files[n])

C3_Witness ==
    /\ entry.fn = "main" /\ DOMAIN files0 = {} /\ ~dir0
    /\ pc = "exited" /\ exit = 0
    /\ Printed(SuccessMsg)
    /\ Cardinality(DOMAIN files) = 5

\* C4: the canvas create_icon draws on, writes and returns is size by size, and
\* the bitmap create_ico renders for entry s of sizes is s by s, with the named
\* font or with the fallback.
C4_BitmapsSquare ==
    /\ (fn = "create_icon" /\ img # NoImg) => img = [width |-> size, height |-> size]
    /\ (fn = "create_icon" /\ pc = "returned") =>
          /\ ret = [width |-> size, height |-> size]
          /\ files[path] = [format |-> "PNG", entries |-> {<<size, size>>}]
    /\ fn = "create_ico" =>
          /\ Len(images) <= Len(sizes)
          /\ \A i \in 1..Len(images) :
                images[i] = [width |-> sizes[i], height |-> sizes[i]]
          /\ pc \in {"load_font", "measure", "draw"} =>
                img = [width |-> size, height |-> size]

C4_Witness ==
    /\ fn = "create_icon" /\ pc = "returned" /\ font = "default"
    /\ size = 3 /\ ret.width = 3 /\ ret.height = 3

\* C5: a failure to load the named font (a point size of 0 included) raises
\* nothing: the call goes on with the default font, and a call that returns has
\* written its file and printed its confirmation.
C5_FontFailureAbsorbed ==
    /\ raisedAt # "load_font"
    /\ pc \in {"measure", "draw"} => font \in {"arial", "default"}
    /\ (pc \in {"measure", "draw"} /\ FontSize(size) = 0) => font = "default"
    /\ pc \in {"return_png", "returned"} =>
          /\ path \in DOMAIN files
          /\ Complete(files[path])
          /\ out # <<>>
          /\ out[Len(out)] = Created(path)

C5_Witness ==
    /\ fn = "create_ico" /\ sizes = <<1, 2>> /\ font = "arial"
    /\ pc = "returned"
    /\ path \in DOMAIN files
    /\ Printed(Created(path))

\* C6 as stated: the exit status of a script run is 1 when the drawing library
\* is missing and 0 in every other run.
C6_ExitOneOnlyWithoutLibrary ==
    (entry.fn = "main" /\ pc = "exited") =>
        exit = (IF pilAvailable THEN 0 ELSE 1)

\* C6 amended: the exit status of a script run is 1 when the drawing library is
\* missing or an error goes unhandled, and 0 when the run falls through to its end.
C6_ExitStatus ==
    (entry.fn = "main" /\ pc = "exited") =>
        exit = (IF pilAvailable /\ exc = "none" THEN 0 ELSE 1)

C6_Witness ==
    /\ entry.fn = "main" /\ pc = "exited"
    /\ pilAvailable /\ exc = "OSError" /\ raisedAt = "save_png"
    /\ exit = 1

\* C7: without the drawing library the script prints the install instruction
\* and exits non-zero at once: the directory is not created, no file is
\* written, nothing is rendered and no "Created:" message is printed.
C7_NoRenderingWithoutLibrary ==
    ~pilAvailable =>
        /\ dirExists = dir0
        /\ files = files0
        /\ written = <<>>
        /\ img = NoImg
        /\ ~AnyCreated
        /\ pc \in {"import", "exited"}
        /\ pc = "exited" => (exit # 0 /\ exit # -1 /\ out = <<InstallMsg>>)

C7_Witness ==
    /\ ~pilAvailable /\ entry.fn = "main" /\ ~dir0
    /\ pc = "exited" /\ exit = 1
    /\ Printed(InstallMsg)

\* C8: create_ico with an empty sizes sequence fails, having written no file
\* and printed no "Created:" message.
C8_EmptySizesFails ==
    (entry.fn = "create_ico" /\ entry.sizes = <<>>) =>
        /\ files = files0
        /\ written = <<>>
        /\ ~AnyCreated
        /\ pc \notin {"print_ico", "returned", "finish"}
        /\ (pc = "exited" /\ pilAvailable) => (exc = "IndexError" /\ exit = 1)

C8_Witness ==
    /\ entry.fn = "create_ico" /\ entry.sizes = <<>> /\ dir0
    /\ pc = "exited" /\ exc = "IndexError" /\ raisedAt = "save_ico"

\* C9: the directory-creation step on an existing directory does not fail and
\* changes no file, and a driver run leaves every file other than its five
\* outputs as it was.
C9_ExistingDirectoryKept ==
    /\ dir0 =>
          /\ raisedAt # "makedirs"
          /\ dirExists
          /\ pc = "banner" => files = files0
    /\ entry.fn = "main" =>
          \A n \in DOMAIN files0 \ FiveNames : n \in DOMAIN files /\ files[n] = files0[n]

C9_Witness ==
    /\ entry.fn = "main" /\ dir0
    /\ DOMAIN files0 = {"other.png", "icon.ico"}
    /\ pc = "exited" /\ exit = 0
    /\ files["other.png"] = OldContent
    /\ files["icon.ico"] # OldContent

\* C10: the driver writes its outputs in the stated order, and an error other
\* than a font-loading failure at a step ends the run: no later step starts, the
\* files already written stay, and the success message is not printed.
C10_OrderedAndFatal ==
    entry.fn = "main" =>
        /\ IsPrefix(written, FiveOrder)
        /\ exc # "none" =>
              /\ pc \in {"raise", "exited"}
              /\ ~Printed(SuccessMsg)
              /\ Len(written) = (IF step = 0 THEN 0 ELSE step - 1)
              /\ \A i \in 1..Len(written) :
                    written[i] \in DOMAIN files /\ Complete(files[written[i]])

C10_Witness ==
    /\ entry.fn = "main" /\ pc = "exited"
    /\ exc = "OSError" /\ raisedAt = "save_ico" /\ step = 4
    /\ written = <<"32x32.png", "128x128.png", "128x128@2x.png">>
    /\ \A i \in 1..3 : written[i] \in DOMAIN files

====
